---- MODULE Spec2Model ----
(***************************************************************************)
(* panko: a minimal X11 window manager.                                    *)
(*                                                                         *)
(* The model covers Manager (src/src/manager.rs): the window registry,     *)
(* startup enumeration (attach_existing_windows), and the dispatch loop    *)
(* (run) with its drag session.  The display server is modelled as far as  *)
(* the manager observes it: the windows it considers to exist, their       *)
(* geometry and attributes, the pointer, and the FIFO event queue.         *)
(*                                                                         *)
(* Requests are buffered by the connection (outbuf) until they are         *)
(* written out.  conn.flush() writes the buffer out; waiting for the reply *)
(* of a query also does, since the reply cannot arrive before the query    *)
(* and everything buffered ahead of it has reached the server.  The server *)
(* executes the requests of one connection in order.                       *)
(*                                                                         *)
(* The connection is assumed to stay up: flush, wait_for_event and the     *)
(* pointer, tree and attribute queries of existing windows succeed.  A     *)
(* query naming a window that has been destroyed fails, and run returns    *)
(* the error.  The cookies of the checked requests are dropped, so a       *)
(* request the server rejects changes nothing and is not seen by run.      *)
(*                                                                         *)
(* The drag offset is an i16 subtraction: where the difference does not    *)
(* fit, a debug build panics and a release build wraps; both outcomes are  *)
(* steps of the model.                                                     *)
(*                                                                         *)
(* Spec is the whole manager against the server and its clients, with the  *)
(* pointer at one place.  SpecGeom starts inside a drag session, with the  *)
(* screen, geometry, pointer and offset drawn from bounded sets, and       *)
(* exercises the move and resize arithmetic.  SpecDrag is the running      *)
(* manager under presses, releases, motion and destruction, over windows   *)
(* that include the largest the protocol allows.  SpecLate is Spec with    *)
(* clients that destroy a window while a request or an event naming it is  *)
(* still on its way.                                                       *)
(***************************************************************************)
EXTENDS Integers, Sequences, FiniteSets, TLC

VARIABLES
    screen,      \* Manager.screen: <<width_in_pixels, height_in_pixels>>
    places,      \* user: the positions the pointer visits in this run
    win,         \* server: window id -> existence, geometry, attributes
    pointer,     \* server: live pointer position <<root_x, root_y>>
    grab,        \* server: the pointer is grabbed as the manager's GrabPointer asked
    events,      \* server -> manager event queue (FIFO)
    windows,     \* Manager.windows: key set of the registry
    drag_state,  \* Manager.drag_state
    outbuf,      \* requests issued and not yet written to the server
    log,         \* requests, replies and flushes of the latest step (none in a server step)
    handled,     \* the event (or call) the latest step served (none in a server step)
    pc           \* "ready" (connected), "running" (in run), "error" (run returned Err),
                 \* "panic" (run panicked)

vars == <<screen, places, win, pointer, grab, events, windows, drag_state, outbuf, log, handled, pc>>

----------------------------------------------------------------------------
(* Bounds of the model *)

MaxQueue == 1

Windows == {1, 2}

Screens == {<<1920, 1080>>}

Points == {<<50, 50>>}

ClientGeoms == {[x |-> 30, y |-> 30, w |-> 200, h |-> 150]}

----------------------------------------------------------------------------
(* Program constants *)

BORDER_WIDTH == 2

MIN_SIZE == 32

MAP_X == 0

MAP_Y == 0

MAP_W == 640

MAP_H == 480

NoWindow == 0

\* x::EventMask::ENTER_WINDOW | x::EventMask::FOCUS_CHANGE
ENTER_FOCUS_MASK == 16 + 2097152

\* i16, the type of ev.root_x(), geometry.x() and DragState.off_x
INT16_MIN == -32768

INT16_MAX == 32767

Fits16(n) == INT16_MIN <= n /\ n <= INT16_MAX

\* The value an i16 subtraction keeps when overflow is not checked.
Wrap16(n) == ((n - INT16_MIN) % 65536) + INT16_MIN

----------------------------------------------------------------------------
(* Records *)

NoWin == [exists |-> FALSE, x |-> 0, y |-> 0, w |-> 0, h |-> 0,
          mapped |-> FALSE, override |-> FALSE]

NewWin(g, mapped, override) ==
    [exists |-> TRUE, x |-> g.x, y |-> g.y, w |-> g.w, h |-> g.h,
     mapped |-> mapped, override |-> override]

NoDrag == [button |-> "None", window |-> NoWindow, off_x |-> 0, off_y |-> 0]

DragState(button, window, off_x, off_y) ==
    [button |-> button, window |-> window, off_x |-> off_x, off_y |-> off_y]

Event(kind, window, mod, detail, p) ==
    [kind |-> kind, window |-> window, mod |-> mod, detail |-> detail,
     root_x |-> p[1], root_y |-> p[2]]

NoEvent == Event("None", NoWindow, FALSE, 0, <<0, 0>>)

Req(op, window, x, y, w, h, value) ==
    [op |-> op, window |-> window, x |-> x, y |-> y, w |-> w, h |-> h, value |-> value]

----------------------------------------------------------------------------
(* The display server, as far as requests change what the manager reads *)

Exists(ws, w) == w \in Windows /\ ws[w].exists

\* One request executed by the server.  A request naming a window that no
\* longer exists is answered by an error and changes nothing.  A position is
\* kept in 16 bits.
Apply(ws, r) ==
    IF ~Exists(ws, r.window) THEN ws
    ELSE IF r.op = "ConfigureXY"
        THEN [ws EXCEPT ![r.window].x = Wrap16(r.x), ![r.window].y = Wrap16(r.y)]
    ELSE IF r.op = "ConfigureWH"
        THEN [ws EXCEPT ![r.window].w = r.w, ![r.window].h = r.h]
    ELSE IF r.op = "ConfigureGeometry"
        THEN [ws EXCEPT ![r.window].x = r.x, ![r.window].y = r.y,
                        ![r.window].w = r.w, ![r.window].h = r.h]
    ELSE IF r.op = "MapWindow"
        THEN [ws EXCEPT ![r.window].mapped = TRUE]
    ELSE ws

RECURSIVE ApplyAll(_, _)
ApplyAll(ws, rs) ==
    IF rs = <<>> THEN ws ELSE ApplyAll(Apply(ws, Head(rs)), Tail(rs))

\* The bordered extent of a mapped window covers the point p.
Covers(wr, p) ==
    /\ wr.exists /\ wr.mapped
    /\ wr.x <= p[1] /\ p[1] < wr.x + wr.w + 2 * BORDER_WIDTH
    /\ wr.y <= p[2] /\ p[2] < wr.y + wr.h + 2 * BORDER_WIDTH

\* The windows a button press at p may name as its child.
ChildrenAt(ws, p) ==
    LET over == {w \in Windows : Covers(ws[w], p)}
    IN IF over = {} THEN {NoWindow} ELSE over

OnScreen(scr, p) == 0 <= p[1] /\ p[1] < scr[1] /\ 0 <= p[2] /\ p[2] < scr[2]

----------------------------------------------------------------------------
(* The connection: c = [out, win, grab, log] threads the request buffer,    *)
(* the server's windows and pointer grab, and the step's log through one   *)
(* manager step.                                                           *)

Conn == [out |-> outbuf, win |-> win, grab |-> grab, log |-> <<>>]

\* send_request / send_request_checked: the request is buffered.
Send(c, r) == [c EXCEPT !.out = Append(@, r), !.log = Append(@, r)]

\* The pointer grab after the server executed the requests rs: GrabPointer
\* by the client that holds the grab replaces it, UngrabPointer releases it.
RECURSIVE GrabAfter(_, _)
GrabAfter(g, rs) ==
    IF rs = <<>> THEN g
    ELSE GrabAfter(IF Head(rs).op = "GrabPointer" THEN TRUE
                   ELSE IF Head(rs).op = "UngrabPointer" THEN FALSE
                   ELSE g, Tail(rs))

\* Everything buffered reaches the server, which executes it in order.
WriteOut(c) ==
    [c EXCEPT !.win = ApplyAll(c.win, c.out), !.grab = GrabAfter(c.grab, c.out), !.out = <<>>]

\* conn.flush()
Flush(c) ==
    LET d == WriteOut(c)
    IN [d EXCEPT !.log = Append(@, Req("Flush", NoWindow, 0, 0, 0, 0, 0))]

\* a geometry reply whose error is taken for an empty geometry
GetGeometryDefault(c, w) ==
    LET d == WriteOut(c)
    IN [d EXCEPT !.log = Append(@,
            IF Exists(d.win, w)
            THEN Req("GetGeometry", w, d.win[w].x, d.win[w].y, d.win[w].w, d.win[w].h, 1)
            ELSE Req("GetGeometry", w, 0, 0, 0, 0, 1))]

\* wait_for_reply(send_request(GetGeometry)): value 1 is Ok, 0 is Err.
GetGeometry(c, w) ==
    LET d == WriteOut(c)
    IN [d EXCEPT !.log = Append(@,
            IF Exists(d.win, w)
            THEN Req("GetGeometry", w, d.win[w].x, d.win[w].y, d.win[w].w, d.win[w].h, 1)
            ELSE Req("GetGeometry", w, 0, 0, 0, 0, 0))]

\* wait_for_reply(send_request(QueryPointer))
QueryPointer(c) ==
    LET d == WriteOut(c)
    IN [d EXCEPT !.log = Append(@,
            Req("QueryPointer", NoWindow, pointer[1], pointer[2], 0, 0, 1))]

\* wait_for_reply(send_request(GetWindowAttributes)): x carries the map
\* state (1 unless Unmapped), y the override-redirect flag.
GetWindowAttributes(c, w) ==
    LET d == WriteOut(c)
    IN [d EXCEPT !.log = Append(@,
            IF Exists(d.win, w)
            THEN Req("GetWindowAttributes", w,
                     IF d.win[w].mapped THEN 1 ELSE 0,
                     IF d.win[w].override THEN 1 ELSE 0, 0, 0, 1)
            ELSE Req("GetWindowAttributes", w, 0, 0, 0, 0, 0))]

\* wait_for_reply(send_request(QueryTree)): the reply is the set of children.
QueryTree(c) ==
    LET d == WriteOut(c)
    IN [d EXCEPT !.log = Append(@, Req("QueryTree", NoWindow, 0, 0, 0, 0, 1))]

Last(s) == s[Len(s)]

Commit(c) ==
    /\ outbuf' = c.out
    /\ win' = c.win
    /\ grab' = c.grab
    /\ log' = c.log

----------------------------------------------------------------------------
(* Manager: helpers *)

\* a placement that cascades by window instead of the constant one
map_window_cascade(c, window) ==
    LET c1 == Send(c, Req("ConfigureGeometry", window, MAP_X + 32 * window, MAP_Y + 32 * window,
                          MAP_W, MAP_H, BORDER_WIDTH))
        c2 == Send(c1, Req("SelectInput", window, 0, 0, 0, 0, ENTER_FOCUS_MASK))
    IN Send(c2, Req("MapWindow", window, 0, 0, 0, 0, 0))

\* Manager::map_window
map_window(c, window) ==
    LET c1 == Send(c, Req("ConfigureGeometry", window, MAP_X, MAP_Y, MAP_W, MAP_H, BORDER_WIDTH))
        c2 == Send(c1, Req("SelectInput", window, 0, 0, 0, 0, ENTER_FOCUS_MASK))
    IN Send(c2, Req("MapWindow", window, 0, 0, 0, 0, 0))

\* Manager::bring_window_to_front
bring_window_to_front(c, window) ==
    Send(c, Req("Raise", window, 0, 0, 0, 0, 0))

\* a focus_window that also paints the border in the active colour
focus_window_highlights(c, window) ==
    Send(Send(c, Req("SetInputFocus", window, 0, 0, 0, 0, 1)),
         Req("BorderPixel", window, 0, 0, 0, 0, 22015))

\* Manager::focus_window: value 1 is InputFocus::PointerRoot
focus_window(c, window) ==
    Send(c, Req("SetInputFocus", window, 0, 0, 0, 0, 1))

----------------------------------------------------------------------------
(* Manager::attach_existing_windows *)

\* the adoption test without the override-redirect check
do_map_mapped(reply) ==
    IF reply.value = 0 THEN FALSE
    ELSE reply.x # 0

\* the adoption test taking a failed query for a window to adopt
do_map_failed(reply) ==
    IF reply.value = 0 THEN TRUE
    ELSE reply.x # 0 /\ reply.y = 0

\* The adoption test on one attribute reply.
do_map(reply) ==
    IF reply.value = 0 THEN FALSE
    ELSE reply.x # 0 /\ reply.y = 0

Min(S) == CHOOSE m \in S : \A n \in S : m <= n

\* The for_each over tree.children(): a = [c, windows]
RECURSIVE AttachChildren(_, _)
AttachChildren(a, children) ==
    IF children = {} THEN a
    ELSE LET w == Min(children)
             c1 == GetWindowAttributes(a.c, w)
             b == IF do_map(Last(c1.log))
                  THEN [c |-> map_window(c1, w), windows |-> a.windows \cup {w}]
                  ELSE [c |-> c1, windows |-> a.windows]
         IN AttachChildren(b, children \ {w})

\* the enumeration without the clear()
ClearRegistryNot(reg) == reg

\* self.windows.clear()
ClearRegistry(reg) == {}

AttachExisting ==
    /\ pc = "ready"
    /\ LET c1 == QueryTree(Conn)
           children == {w \in Windows : c1.win[w].exists}
           a == AttachChildren([c |-> c1, windows |-> ClearRegistry(windows)], children)
       IN /\ Commit(Flush(a.c))
          /\ windows' = a.windows
    /\ handled' = Event("AttachExisting", NoWindow, FALSE, 0, <<0, 0>>)
    /\ UNCHANGED <<screen, places, pointer, events, drag_state, pc>>

\* The destruction notices of the windows of S, in the order of their ids.
RECURSIVE DestroyNotices(_)
DestroyNotices(S) ==
    IF S = {} THEN <<>>
    ELSE <<Event("DestroyNotify", Min(S), FALSE, 0, <<0, 0>>)>> \o DestroyNotices(S \ {Min(S)})

\* attach_existing_windows while the clients of the windows of gone destroy
\* them between the tree reply and the attribute queries.
AttachExistingWhile(gone) ==
    /\ pc = "ready"
    /\ Len(events) + Cardinality(gone) <= MaxQueue
    /\ LET c1 == QueryTree(Conn)
           children == {w \in Windows : c1.win[w].exists}
           c2 == [c1 EXCEPT !.win = [w \in Windows |-> IF w \in gone THEN NoWin ELSE c1.win[w]]]
           a == AttachChildren([c |-> c2, windows |-> ClearRegistry(windows)], children)
       IN /\ gone \subseteq children
          /\ Commit(Flush(a.c))
          /\ windows' = a.windows
    /\ events' = events \o DestroyNotices(gone)
    /\ handled' = Event("AttachExisting", NoWindow, FALSE, 0, <<0, 0>>)
    /\ UNCHANGED <<screen, places, pointer, drag_state, pc>>

----------------------------------------------------------------------------
(* Manager::run: one action per arm of the match *)

Receives(kind) ==
    /\ pc \in {"ready", "running"}
    /\ events # <<>>
    /\ Head(events).kind = kind

\* wait_for_event returned ev and the arm ran to the end of the loop body.
Served ==
    /\ events' = Tail(events)
    /\ handled' = Head(events)
    /\ UNCHANGED <<screen, places, pointer>>

CreateNotify ==
    /\ Receives("CreateNotify")
    /\ windows' = windows \cup {Head(events).window}
    /\ Commit(Conn)
    /\ pc' = "running"
    /\ Served
    /\ UNCHANGED drag_state

\* clear() in place of remove()
RemoveWindowAll(reg, w) == {}

\* a remove() that is never made
RemoveWindowNone(reg, w) == reg

\* self.windows.remove(&ev.window())
RemoveWindow(reg, w) == reg \ {w}

\* a DestroyNotify arm that also ends a drag session on the window
DestroyNotifyEndsSession ==
    /\ Receives("DestroyNotify")
    /\ windows' = RemoveWindow(windows, Head(events).window)
    /\ drag_state' = IF drag_state.window = Head(events).window THEN NoDrag ELSE drag_state
    /\ Commit(Conn)
    /\ pc' = "running"
    /\ Served

DestroyNotify ==
    /\ Receives("DestroyNotify")
    /\ windows' = RemoveWindow(windows, Head(events).window)
    /\ Commit(Conn)
    /\ pc' = "running"
    /\ Served
    /\ UNCHANGED drag_state

MapRequest ==
    /\ Receives("MapRequest")
    /\ Commit(Flush(map_window(Conn, Head(events).window)))
    /\ pc' = "running"
    /\ Served
    /\ UNCHANGED <<windows, drag_state>>

\* an unmodified press that also grabs the pointer
ButtonPressPlainGrabs ==
    /\ Receives("ButtonPress")
    /\ ~Head(events).mod
    /\ LET ev == Head(events)
       IN IF ev.window = NoWindow
          THEN Commit(Conn)
          ELSE Commit(Flush(Send(bring_window_to_front(Conn, ev.window),
                                 Req("GrabPointer", NoWindow, 0, 0, 0, 0, 0))))
    /\ pc' = "running"
    /\ Served
    /\ UNCHANGED <<windows, drag_state>>

\* an unmodified press without the test of ev.child()
ButtonPressPlainUnchecked ==
    /\ Receives("ButtonPress")
    /\ ~Head(events).mod
    /\ Commit(Flush(bring_window_to_front(Conn, Head(events).window)))
    /\ pc' = "running"
    /\ Served
    /\ UNCHANGED <<windows, drag_state>>

\* ButtonPress if ev.state().is_empty()
ButtonPressPlain ==
    /\ Receives("ButtonPress")
    /\ ~Head(events).mod
    /\ LET ev == Head(events)
       IN IF ev.window = NoWindow
          THEN Commit(Conn)
          ELSE Commit(Flush(bring_window_to_front(Conn, ev.window)))
    /\ pc' = "running"
    /\ Served
    /\ UNCHANGED <<windows, drag_state>>

\* the modified press without its GrabPointer
PressRequestsUngrabbed(c, child) ==
    GetGeometry(bring_window_to_front(c, child), child)

\* The requests of the modified press up to the geometry reply.
PressRequests(c, child) ==
    LET c1 == bring_window_to_front(c, child)
        c2 == Send(c1, Req("GrabPointer", NoWindow, 0, 0, 0, 0, 0))
    IN GetGeometry(c2, child)

\* let off_x = ev.root_x() - geometry.x(): an i16 subtraction
PressOverflows(ev, geometry) ==
    ~Fits16(ev.root_x - geometry.x) \/ ~Fits16(ev.root_y - geometry.y)

\* the offset taken from the press position alone, the origin not subtracted
PressDragStateRoot(ev, geometry) ==
    LET off_x == Wrap16(ev.root_x)
        off_y == Wrap16(ev.root_y)
    IN IF ev.detail = 1 THEN DragState("Left", ev.window, off_x, off_y)
       ELSE IF ev.detail = 3 THEN DragState("Right", ev.window, off_x, off_y)
       ELSE NoDrag

\* self.drag_state = match ev.detail()
PressDragState(ev, geometry) ==
    LET off_x == Wrap16(ev.root_x - geometry.x)
        off_y == Wrap16(ev.root_y - geometry.y)
    IN IF ev.detail = 1 THEN DragState("Left", ev.window, off_x, off_y)
       ELSE IF ev.detail = 3 THEN DragState("Right", ev.window, off_x, off_y)
       ELSE NoDrag

\* The builds of the program: overflow checks are on in a debug build (the
\* subtraction panics) and off in a release build (it wraps).
Builds == {"debug", "release"}

\* ButtonPress with a modifier
ButtonPressMod ==
    /\ Receives("ButtonPress")
    /\ Head(events).mod
    /\ LET ev == Head(events)
       IN IF ev.window = NoWindow
          THEN /\ Commit(Conn)
               /\ pc' = "running"
               /\ UNCHANGED drag_state
          ELSE LET c == PressRequests(Conn, ev.window)
                   geometry == Last(c.log)
               IN /\ Commit(c)
                  /\ IF geometry.value = 0
                     THEN /\ pc' = "error"
                          /\ UNCHANGED drag_state
                     ELSE \E build \in Builds :
                            IF PressOverflows(ev, geometry) /\ build = "debug"
                            THEN /\ pc' = "panic"
                                 /\ UNCHANGED drag_state
                            ELSE /\ pc' = "running"
                                 /\ drag_state' = PressDragState(ev, geometry)
    /\ Served
    /\ UNCHANGED windows

\* a release without the flush
ReleaseRequestsUnflushed(c) ==
    Send(c, Req("UngrabPointer", NoWindow, 0, 0, 0, 0, 0))

\* The requests of a button release.
ReleaseRequests(c) ==
    Flush(Send(c, Req("UngrabPointer", NoWindow, 0, 0, 0, 0, 0)))

\* a release that ungrabs and leaves the session alone
ButtonReleaseKeepsSession ==
    /\ Receives("ButtonRelease")
    /\ Commit(ReleaseRequests(Conn))
    /\ pc' = "running"
    /\ Served
    /\ UNCHANGED <<windows, drag_state>>

ButtonRelease ==
    /\ Receives("ButtonRelease")
    /\ Commit(ReleaseRequests(Conn))
    /\ drag_state' = NoDrag
    /\ pc' = "running"
    /\ Served
    /\ UNCHANGED windows

\* new_x with the border left out of the window's extent
new_x_inner(ptr_root_x, off_x, width, scr_width) ==
    LET win_width == width
        ptr_x == ptr_root_x - off_x
    IN IF ptr_x <= 0 THEN 0
       ELSE IF ptr_x + win_width > scr_width THEN scr_width - win_width
       ELSE ptr_x

\* DragButton::Left: the clamped target of a move
new_x(ptr_root_x, off_x, width, scr_width) ==
    LET win_width == width + 2 * BORDER_WIDTH
        ptr_x == ptr_root_x - off_x
    IN IF ptr_x <= 0 THEN 0
       ELSE IF ptr_x + win_width > scr_width THEN scr_width - win_width
       ELSE ptr_x

\* new_y taking the pointer itself as the candidate
new_y_pointer(ptr_root_y, off_y, height, scr_height) ==
    LET win_height == height + 2 * BORDER_WIDTH
        ptr_y == ptr_root_y
    IN IF ptr_y <= 0 THEN 0
       ELSE IF ptr_y + win_height > scr_height THEN scr_height - win_height
       ELSE ptr_y

new_y(ptr_root_y, off_y, height, scr_height) ==
    LET win_height == height + 2 * BORDER_WIDTH
        ptr_y == ptr_root_y - off_y
    IN IF ptr_y <= 0 THEN 0
       ELSE IF ptr_y + win_height > scr_height THEN scr_height - win_height
       ELSE ptr_y

\* DragButton::Right: the candidate size of a resize
new_width(ptr_x, win_x) == ptr_x - win_x + 1 - BORDER_WIDTH * 2

new_height(ptr_y, win_y) == ptr_y - win_y + 1 - BORDER_WIDTH * 2

\* the floor applied to either dimension instead of both
ResizeAllowedEither(nw, nh) == nw >= MIN_SIZE \/ nh >= MIN_SIZE

\* if new_width >= 32 && new_height >= 32
ResizeAllowed(nw, nh) == nw >= MIN_SIZE /\ nh >= MIN_SIZE

\* the Left arm adding the pointer's offset to the window's live origin
MoveRequestsDelta(c, ds, ptr, geometry) ==
    Flush(Send(c, Req("ConfigureXY", ds.window,
                      new_x(geometry.x + ptr.x, ds.off_x, geometry.w, screen[1]),
                      new_y(geometry.y + ptr.y, ds.off_y, geometry.h, screen[2]), 0, 0, 0)))

\* The requests of the Left arm.
MoveRequests(c, ds, ptr, geometry) ==
    Flush(Send(c, Req("ConfigureXY", ds.window,
                      new_x(ptr.x, ds.off_x, geometry.w, screen[1]),
                      new_y(ptr.y, ds.off_y, geometry.h, screen[2]), 0, 0, 0)))

\* a Right arm whose command also carries the pointer as the position
ResizeRequestsPlaced(c, ds, ptr, geometry) ==
    LET nw == new_width(ptr.x, geometry.x)
        nh == new_height(ptr.y, geometry.y)
    IN IF ResizeAllowed(nw, nh)
       THEN Flush(Send(c, Req("ConfigureGeometry", ds.window, ptr.x, ptr.y, nw, nh, BORDER_WIDTH)))
       ELSE c

\* The requests of the Right arm.
ResizeRequests(c, ds, ptr, geometry) ==
    LET nw == new_width(ptr.x, geometry.x)
        nh == new_height(ptr.y, geometry.y)
    IN IF ResizeAllowed(nw, nh)
       THEN Flush(Send(c, Req("ConfigureWH", ds.window, 0, 0, nw, nh, 0)))
       ELSE c

\* a motion notice that ends the session when the floor suppresses the resize
MotionNotifyDropsSession ==
    /\ Receives("MotionNotify")
    /\ IF drag_state = NoDrag
       THEN /\ Commit(Conn)
            /\ pc' = "running"
            /\ UNCHANGED drag_state
       ELSE LET c1 == QueryPointer(Conn)
                ptr == Last(c1.log)
                c2 == GetGeometry(c1, drag_state.window)
                geometry == Last(c2.log)
            IN IF geometry.value = 0
               THEN /\ Commit(c2)
                    /\ pc' = "error"
                    /\ UNCHANGED drag_state
               ELSE /\ pc' = "running"
                    /\ IF drag_state.button = "Left"
                       THEN /\ Commit(MoveRequests(c2, drag_state, ptr, geometry))
                            /\ UNCHANGED drag_state
                       ELSE /\ Commit(ResizeRequests(c2, drag_state, ptr, geometry))
                            /\ drag_state' =
                                  IF ResizeAllowed(new_width(ptr.x, geometry.x),
                                                   new_height(ptr.y, geometry.y))
                                  THEN drag_state ELSE NoDrag
    /\ Served
    /\ UNCHANGED windows

MotionNotify ==
    /\ Receives("MotionNotify")
    /\ IF drag_state = NoDrag
       THEN /\ Commit(Conn)
            /\ pc' = "running"
       ELSE LET c1 == QueryPointer(Conn)
                ptr == Last(c1.log)
                c2 == GetGeometry(c1, drag_state.window)
                geometry == Last(c2.log)
            IN IF geometry.value = 0
               THEN /\ Commit(c2)
                    /\ pc' = "error"
               ELSE /\ pc' = "running"
                    /\ IF drag_state.button = "Left"
                       THEN Commit(MoveRequests(c2, drag_state, ptr, geometry))
                       ELSE Commit(ResizeRequests(c2, drag_state, ptr, geometry))
    /\ Served
    /\ UNCHANGED <<windows, drag_state>>

\* an EnterNotify arm that focuses only the windows of the registry
EnterNotifyTracked ==
    /\ Receives("EnterNotify")
    /\ IF Head(events).window \in windows
       THEN Commit(Flush(focus_window(Conn, Head(events).window)))
       ELSE Commit(Conn)
    /\ pc' = "running"
    /\ Served
    /\ UNCHANGED <<windows, drag_state>>

EnterNotify ==
    /\ Receives("EnterNotify")
    /\ Commit(Flush(focus_window(Conn, Head(events).window)))
    /\ pc' = "running"
    /\ Served
    /\ UNCHANGED <<windows, drag_state>>

\* value is the border pixel
FocusIn ==
    /\ Receives("FocusIn")
    /\ Commit(Flush(Send(Conn, Req("BorderPixel", Head(events).window, 0, 0, 0, 0, 22015))))
    /\ pc' = "running"
    /\ Served
    /\ UNCHANGED <<windows, drag_state>>

FocusOut ==
    /\ Receives("FocusOut")
    /\ Commit(Flush(Send(Conn, Req("BorderPixel", Head(events).window, 0, 0, 0, 0, 0))))
    /\ pc' = "running"
    /\ Served
    /\ UNCHANGED <<windows, drag_state>>

\* ConfigureRequest, ConfigureNotify, MapNotify, UnmapNotify, MappingNotify,
\* ClientMessage and the catch-all arm
Ignored ==
    /\ Receives("Other")
    /\ Commit(Conn)
    /\ pc' = "running"
    /\ Served
    /\ UNCHANGED <<windows, drag_state>>

----------------------------------------------------------------------------
(* The display server and its other clients *)

\* The manager's process is alive and the queue has room for one more event.
CanNotify == pc \in {"ready", "running"} /\ Len(events) < MaxQueue

Notify(ev) == events' = Append(events, ev)

ServerFrame ==
    /\ log' = <<>>
    /\ handled' = NoEvent
    /\ UNCHANGED <<screen, places, grab, windows, drag_state, outbuf, pc>>

\* A client creates a top-level window; the root's SUBSTRUCTURE_NOTIFY
\* selection reports it.
CreateWindow(w, g, override) ==
    /\ CanNotify
    /\ ~win[w].exists
    /\ win' = [win EXCEPT ![w] = NewWin(g, FALSE, override)]
    /\ Notify(Event("CreateNotify", w, FALSE, 0, <<0, 0>>))
    /\ UNCHANGED pointer
    /\ ServerFrame

DestroyWindow(w) ==
    /\ CanNotify
    /\ win[w].exists
    /\ win' = [win EXCEPT ![w] = NoWin]
    /\ Notify(Event("DestroyNotify", w, FALSE, 0, <<0, 0>>))
    /\ UNCHANGED pointer
    /\ ServerFrame

\* A client destroys its window while an event naming it is still queued.
DestroyQueued(w) ==
    /\ pc \in {"ready", "running"}
    /\ Len(events) <= MaxQueue
    /\ \E i \in 1..Len(events) : events[i].window = w /\ events[i].kind # "DestroyNotify"
    /\ win[w].exists
    /\ win' = [win EXCEPT ![w] = NoWin]
    /\ Notify(Event("DestroyNotify", w, FALSE, 0, <<0, 0>>))
    /\ UNCHANGED pointer
    /\ ServerFrame

\* A client maps its window: SUBSTRUCTURE_REDIRECT turns the request into a
\* MapRequest unless the window is override-redirect, which is mapped at once
\* (the MapNotify is one of the events the manager ignores).
ClientMap(w) ==
    /\ CanNotify
    /\ win[w].exists /\ ~win[w].mapped
    /\ IF win[w].override
       THEN /\ win' = [win EXCEPT ![w].mapped = TRUE]
            /\ Notify(Event("Other", w, FALSE, 0, <<0, 0>>))
       ELSE /\ win' = win
            /\ Notify(Event("MapRequest", w, FALSE, 0, <<0, 0>>))
    /\ UNCHANGED pointer
    /\ ServerFrame

\* The user moves the pointer; report says whether a MotionNotify is
\* delivered (motion hints report at most one per query).
PointerMotion(p, report) ==
    /\ pc \in {"ready", "running"}
    /\ pointer' = p
    /\ IF report
       THEN CanNotify /\ Notify(Event("MotionNotify", NoWindow, FALSE, 0, <<0, 0>>))
       ELSE p # pointer /\ events' = events
    /\ UNCHANGED win
    /\ ServerFrame

\* The user presses a button: the passive grabs deliver button 1 with no
\* modifier, and any button once a modifier or another button is down.  The
\* event mask of the manager's GrabPointer has no BUTTON_PRESS: no press is
\* delivered while that grab is in place.
Press(mod, detail, child) ==
    /\ CanNotify
    /\ ~grab
    /\ child \in ChildrenAt(win, pointer)
    /\ mod \/ detail = 1
    /\ Notify(Event("ButtonPress", child, mod, detail, pointer))
    /\ UNCHANGED <<win, pointer>>
    /\ ServerFrame

Release ==
    /\ CanNotify
    /\ Notify(Event("ButtonRelease", NoWindow, FALSE, 0, <<0, 0>>))
    /\ UNCHANGED <<win, pointer>>
    /\ ServerFrame

\* EnterNotify, FocusIn and FocusOut of a mapped window.
Crossing(kind, w) ==
    /\ CanNotify
    /\ win[w].exists /\ win[w].mapped
    /\ Notify(Event(kind, w, FALSE, 0, <<0, 0>>))
    /\ UNCHANGED <<win, pointer>>
    /\ ServerFrame

----------------------------------------------------------------------------
(* Specification *)

InitialWindowStates ==
    {NoWin} \cup {NewWin(g, a[1], a[2]) :
                    g \in ClientGeoms,
                    a \in {<<TRUE, FALSE>>, <<FALSE, FALSE>>, <<TRUE, TRUE>>}}

\* Manager::connect returned: empty registry, no drag session.
Init ==
    /\ screen \in Screens
    /\ places = {p \in Points : OnScreen(screen, p)}
    /\ win \in [Windows -> InitialWindowStates]
    /\ pointer \in places
    /\ grab = FALSE
    /\ events = <<>>
    /\ windows = {}
    /\ drag_state = NoDrag
    /\ outbuf = <<>>
    /\ log = <<>>
    /\ handled = NoEvent
    /\ pc = "ready"

Buttons == {1, 2, 3}

Next ==
    \/ AttachExisting
    \/ CreateNotify
    \/ DestroyNotify
    \/ MapRequest
    \/ ButtonPressPlain
    \/ ButtonPressMod
    \/ ButtonRelease
    \/ MotionNotify
    \/ EnterNotify
    \/ FocusIn
    \/ FocusOut
    \/ Ignored
    \/ \E w \in Windows, g \in ClientGeoms, o \in BOOLEAN : CreateWindow(w, g, o)
    \/ \E w \in Windows : DestroyWindow(w)
    \/ \E w \in Windows : ClientMap(w)
    \/ \E p \in places, r \in BOOLEAN : PointerMotion(p, r)
    \/ \E m \in BOOLEAN, d \in Buttons, w \in Windows \cup {NoWindow} : Press(m, d, w)
    \/ Release
    \/ \E k \in {"EnterNotify", "FocusIn", "FocusOut"}, w \in Windows : Crossing(k, w)

Spec == Init /\ [][Next]_vars

----------------------------------------------------------------------------
(* Drag geometry: a specification that starts in the middle of a drag      *)
(* session, with the screen, the window's geometry, the pointer and the    *)
(* stored offset drawn from bounded sets, and motion notices queued.       *)

GeomScreens == {<<1920, 1080>>, <<12, 10>>}

GeomPoints == {<<10, 10>>, <<105, 105>>, <<1900, 50>>, <<0, 0>>, <<5, 4>>, <<11, 9>>}

GeomWins == {[x |-> 0, y |-> 0, w |-> 640, h |-> 480],
             [x |-> 100, y |-> 100, w |-> 200, h |-> 150],
             [x |-> 2, y |-> 1, w |-> 4, h |-> 3],
             [x |-> 0, y |-> 0, w |-> 8, h |-> 6],
             [x |-> 0, y |-> 0, w |-> 10, h |-> 8]}

GeomOffsets == {<<10, 10>>, <<5, 5>>, <<0, 0>>, <<-3, -2>>}

Motion == Event("MotionNotify", NoWindow, FALSE, 0, <<0, 0>>)

InitGeom ==
    /\ screen \in GeomScreens
    /\ places = {p \in GeomPoints : OnScreen(screen, p)}
    /\ \E g \in GeomWins : win = [w \in Windows |-> IF w = 1 THEN NewWin(g, TRUE, FALSE) ELSE NoWin]
    /\ pointer \in places
    /\ grab = TRUE
    /\ events \in {<<Motion>>, <<Motion, Motion>>}
    /\ windows = {1}
    /\ \E b \in {"Left", "Right"}, o \in GeomOffsets : drag_state = DragState(b, 1, o[1], o[2])
    /\ outbuf = <<>>
    /\ log = <<>>
    /\ handled = NoEvent
    /\ pc = "running"

NextGeom ==
    \/ MotionNotify
    \/ \E p \in places, r \in BOOLEAN : PointerMotion(p, r)

SpecGeom == InitGeom /\ [][NextGeom]_vars

----------------------------------------------------------------------------
(* Drag sessions: a specification of the running manager with the pointer   *)
(* over mapped windows, which may be override-redirect windows of the       *)
(* largest extent the protocol allows, driven by button presses, releases,  *)
(* pointer motion and the destruction of windows.                           *)

DragPoints == {<<50, 50>>}

DragGeom == [x |-> 30, y |-> 30, w |-> 200, h |-> 150]

WideGeom == [x |-> INT16_MIN, y |-> INT16_MIN, w |-> 65535, h |-> 65535]

InitDrag ==
    /\ screen = <<1920, 1080>>
    /\ places = DragPoints
    /\ win \in [Windows -> {NewWin(DragGeom, TRUE, FALSE), NewWin(WideGeom, TRUE, TRUE)}]
    /\ pointer \in places
    /\ grab = FALSE
    /\ events = <<>>
    /\ windows = Windows
    /\ drag_state = NoDrag
    /\ outbuf = <<>>
    /\ log = <<>>
    /\ handled = NoEvent
    /\ pc = "running"

NextDrag ==
    \/ DestroyNotify
    \/ ButtonPressPlain
    \/ ButtonPressMod
    \/ ButtonRelease
    \/ MotionNotify
    \/ \E w \in Windows : DestroyWindow(w)
    \/ \E p \in places, r \in BOOLEAN : PointerMotion(p, r)
    \/ \E m \in BOOLEAN, d \in Buttons, w \in Windows \cup {NoWindow} : Press(m, d, w)
    \/ Release

SpecDrag == InitDrag /\ [][NextDrag]_vars

----------------------------------------------------------------------------
(* Late requests: the whole manager, with clients that destroy a window     *)
(* while the manager still has an event naming it queued, or between the    *)
(* tree reply and the attribute queries of the enumeration.                 *)

NextLate ==
    \/ \E gone \in SUBSET Windows : AttachExistingWhile(gone)
    \/ CreateNotify
    \/ DestroyNotify
    \/ MapRequest
    \/ ButtonPressPlain
    \/ ButtonPressMod
    \/ ButtonRelease
    \/ MotionNotify
    \/ EnterNotify
    \/ FocusIn
    \/ FocusOut
    \/ Ignored
    \/ \E w \in Windows, g \in ClientGeoms, o \in BOOLEAN : CreateWindow(w, g, o)
    \/ \E w \in Windows : DestroyWindow(w)
    \/ \E w \in Windows : DestroyQueued(w)
    \/ \E w \in Windows : ClientMap(w)
    \/ \E p \in places, r \in BOOLEAN : PointerMotion(p, r)
    \/ \E m \in BOOLEAN, d \in Buttons, w \in Windows \cup {NoWindow} : Press(m, d, w)
    \/ Release
    \/ \E k \in {"EnterNotify", "FocusIn", "FocusOut"}, w \in Windows : Crossing(k, w)

SpecLate == Init /\ [][NextLate]_vars

----------------------------------------------------------------------------
(* Drag start: a specification that starts with one modified press queued,  *)
(* over a window under the pointer, with the screen, the window's geometry  *)
(* and the pointer drawn from the sets of the drag geometry; the session    *)
(* the press starts is followed through motion to its release.              *)

InitStart ==
    /\ screen \in GeomScreens
    /\ places = {p \in GeomPoints : OnScreen(screen, p)}
    /\ \E g \in GeomWins : win = [w \in Windows |-> IF w = 1 THEN NewWin(g, TRUE, FALSE) ELSE NoWin]
    /\ pointer \in places
    /\ Covers(win[1], pointer)
    /\ grab = FALSE
    /\ \E d \in {1, 3} : events = <<Event("ButtonPress", 1, TRUE, d, pointer)>>
    /\ windows = {1}
    /\ drag_state = NoDrag
    /\ outbuf = <<>>
    /\ log = <<>>
    /\ handled = NoEvent
    /\ pc = "running"

NextStart ==
    \/ ButtonPressMod
    \/ MotionNotify
    \/ ButtonRelease
    \/ \E p \in places, r \in BOOLEAN : PointerMotion(p, r)
    \/ Release

SpecStart == InitStart /\ [][NextStart]_vars

----------------------------------------------------------------------------
(* Reading a step's log *)

Entries(l, op) == {i \in 1..Len(l) : l[i].op = op}

Ops(l) == [i \in 1..Len(l) |-> l[i].op]

Commands == {"ConfigureXY", "ConfigureWH", "ConfigureGeometry", "Raise", "MapWindow",
             "SelectInput", "BorderPixel", "SetInputFocus", "GrabPointer", "UngrabPointer"}

\* The log of a motion notice served in a Move session whose queries succeeded.
IsMoveLog(l) == Ops(l) = <<"QueryPointer", "GetGeometry", "ConfigureXY", "Flush">>

\* The latest step served a motion notice in a session of the given button
\* and both queries were answered.
MotionServed(button) ==
    /\ handled.kind = "MotionNotify"
    /\ drag_state.button = button
    /\ Len(log) >= 2
    /\ log[2].op = "GetGeometry" /\ log[2].value = 1

----------------------------------------------------------------------------
(* C1: whenever the bordered window fits the screen (w+2B <= W, h+2B <= H), *)
(* the position a Move-mode motion notice puts in its configure command     *)
(* satisfies 0 <= x <= W-(w+2B) and 0 <= y <= H-(h+2B), for every pointer   *)
(* position and every stored offset.                                        *)
C1_MoveClamped ==
    MotionServed("Left") =>
        LET g == log[2]
            bw == g.w + 2 * 2
            bh == g.h + 2 * 2
        IN (bw <= screen[1] /\ bh <= screen[2]) =>
              /\ Entries(log, "ConfigureXY") # {}
              /\ \A i \in Entries(log, "ConfigureXY") :
                    /\ 0 <= log[i].x /\ log[i].x <= screen[1] - bw
                    /\ 0 <= log[i].y /\ log[i].y <= screen[2] - bh

\* A move clamped at the right edge of a screen wider than the window, its
\* vertical candidate passed through.
C1_Witness ==
    /\ MotionServed("Left")
    /\ log[2].w + 4 < screen[1] /\ log[2].h + 4 < screen[2]
    /\ IsMoveLog(log)
    /\ log[1].x - drag_state.off_x > screen[1] - (log[2].w + 4)
    /\ log[3].x = screen[1] - (log[2].w + 4)
    /\ log[3].y = log[1].y - drag_state.off_y /\ log[3].y > 0

----------------------------------------------------------------------------
\* The scenario of C2: screen 1920x1080, a 640x480 window in a Move session
\* with offset (10,10), the live pointer at (1900,50).
C2_Scenario ==
    /\ screen = <<1920, 1080>>
    /\ MotionServed("Left")
    /\ drag_state.off_x = 10 /\ drag_state.off_y = 10
    /\ log[1].op = "QueryPointer" /\ log[1].x = 1900 /\ log[1].y = 50
    /\ log[2].w = 640 /\ log[2].h = 480

\* The one configure command of the step targets (x, y) on the dragged window.
MoveIssued(x, y) ==
    /\ IsMoveLog(log)
    /\ log[3].window = drag_state.window
    /\ log[3].x = x /\ log[3].y = y

(* C2 as stated: in the scenario the motion handler issues a configure      *)
(* command with target position (1276, 10).                                 *)
C2_Original == C2_Scenario => MoveIssued(1276, 10)

(* C2, amended: in the scenario the motion handler issues a configure       *)
(* command with target position (1276, 40): x is clamped to 1920-644, y is  *)
(* the unclamped candidate 50-10.                                           *)
C2_MoveScenario == C2_Scenario => MoveIssued(1276, 40)

C2_Witness == C2_Scenario /\ IsMoveLog(log)

----------------------------------------------------------------------------
(* C3: within one Move session, two consecutive motion notices served with  *)
(* the same pointer position, window size and screen issue the same target  *)
(* (x,y), and serving the second leaves the window geometry as the first    *)
(* command left it.                                                         *)
C3_MoveIdempotent ==
    [][(/\ IsMoveLog(log) /\ IsMoveLog(log')
        /\ handled.kind = "MotionNotify" /\ handled'.kind = "MotionNotify"
        /\ events # <<>> /\ events' = Tail(events)
        /\ drag_state.button = "Left" /\ drag_state' = drag_state
        /\ log'[1].x = log[1].x /\ log'[1].y = log[1].y
        /\ log'[2].w = log[2].w /\ log'[2].h = log[2].h
        /\ screen' = screen)
       => (/\ log'[3].x = log[3].x /\ log'[3].y = log[3].y
           /\ log'[3].window = log[3].window
           /\ win' = win)]_vars

\* A motion notice served in a Move session that found the window where the
\* command of the notice before it had put it, away from where it started.
C3_Witness ==
    /\ IsMoveLog(log)
    /\ handled.kind = "MotionNotify"
    /\ events = <<>>
    /\ log[2].x = log[3].x /\ log[2].y = log[3].y
    /\ log[3].x = log[1].x - drag_state.off_x /\ log[3].x > 100

----------------------------------------------------------------------------
(* C4: a Resize-mode motion notice issues a configure command only if both  *)
(* computed dimensions (ptr - origin + 1 - 2B) are >= 32, and then carries  *)
(* exactly those; when either is < 32 (origin (100,100), pointer (105,105): *)
(* candidate (2,2)) it issues no command and the window keeps its size, so  *)
(* no resize command ever carries a dimension below 32.                     *)
C4_ResizeFloor ==
    [][(/\ handled'.kind = "MotionNotify"
        /\ events # <<>> /\ events' = Tail(events)
        /\ drag_state.button = "Right"
        /\ Len(log') >= 2 /\ log'[2].value = 1)
       => LET cw == log'[1].x - log'[2].x + 1 - 4
              ch == log'[1].y - log'[2].y + 1 - 4
          IN IF cw >= 32 /\ ch >= 32
             THEN /\ Ops(log') = <<"QueryPointer", "GetGeometry", "ConfigureWH", "Flush">>
                  /\ log'[3].w = cw /\ log'[3].h = ch
                  /\ log'[3].window = drag_state.window
             ELSE /\ Ops(log') = <<"QueryPointer", "GetGeometry">>
                  /\ win' = win]_vars

\* The scenario: origin (100,100), pointer (105,105), command suppressed.
C4_Witness ==
    /\ MotionServed("Right")
    /\ log[1].x = 105 /\ log[1].y = 105
    /\ log[2].x = 100 /\ log[2].y = 100
    /\ Entries(log, "ConfigureWH") = {}
    /\ win[drag_state.window].w = log[2].w /\ win[drag_state.window].h = log[2].h

----------------------------------------------------------------------------
\* The entries of the log that are commands, and those naming window w.
CommandEntries(l) == {i \in 1..Len(l) : l[i].op \in Commands}

CommandsFor(l, w) == {i \in CommandEntries(l) : l[i].window = w}

(* C5: in every state, serving a button release issues exactly one pointer  *)
(* ungrab and leaves the drag session empty; no other step issues a pointer *)
(* ungrab.                                                                  *)
C5_ReleaseUngrabs ==
    /\ handled.kind = "ButtonRelease" =>
          /\ Cardinality(Entries(log, "UngrabPointer")) = 1
          /\ drag_state = NoDrag
    /\ handled.kind # "ButtonRelease" => Entries(log, "UngrabPointer") = {}

C5_Witness ==
    /\ handled.kind = "ButtonRelease"
    /\ Ops(log) = <<"UngrabPointer", "Flush">>
    /\ drag_state = NoDrag

----------------------------------------------------------------------------
(* C6: serving a destruction notice for window w removes w from the         *)
(* registry and keeps every other entry; when w is not in the registry      *)
(* (already removed, or never tracked) the registry is unchanged, and the   *)
(* loop goes on without an error.                                           *)
C6_DestroyRemoves ==
    [][(/\ events # <<>> /\ events' = Tail(events)
        /\ Head(events).kind = "DestroyNotify")
       => LET w == Head(events).window
          IN /\ w \notin windows'
             /\ \A v \in Windows \ {w} : (v \in windows') <=> (v \in windows)
             /\ (w \notin windows => windows' = windows)
             /\ pc' = "running"]_vars

\* A destruction notice was served and another window is still registered.
C6_Witness ==
    /\ handled.kind = "DestroyNotify"
    /\ handled.window \notin windows
    /\ windows # {}

----------------------------------------------------------------------------
\* The attribute replies of an enumeration, and the children they adopt.
AttrReplies == Entries(log, "GetWindowAttributes")

OverrideReplies == {i \in AttrReplies : log[i].value = 1 /\ log[i].y = 1}

Adopted == {log[i].window : i \in {j \in AttrReplies :
                log[j].value = 1 /\ log[j].x # 0 /\ log[j].y = 0}}

(* C7 as stated: an enumerated child whose attributes report                *)
(* override-redirect is inserted into the registry, and no map, configure   *)
(* or attribute-change command is issued for it.                            *)
C7_Original ==
    handled.kind = "AttachExisting" =>
        \A i \in OverrideReplies :
            /\ log[i].window \in windows
            /\ CommandsFor(log, log[i].window) = {}

(* C7, amended: an enumerated child whose attributes report                 *)
(* override-redirect is not in the registry after the enumeration, and no   *)
(* map, configure or attribute-change command is issued for it.             *)
C7_OverrideSkipped ==
    handled.kind = "AttachExisting" =>
        \A i \in OverrideReplies :
            /\ log[i].window \notin windows
            /\ CommandsFor(log, log[i].window) = {}

C7_Witness ==
    /\ handled.kind = "AttachExisting"
    /\ OverrideReplies # {}

----------------------------------------------------------------------------
----------------------------------------------------------------------------
DestroyPending ==
    {events[i].window : i \in {j \in 1..Len(events) : events[j].kind = "DestroyNotify"}}

----------------------------------------------------------------------------
\* A step of the dispatch loop that issued at least one command.
IssuedCommands ==
    /\ handled.kind \notin {"None", "AttachExisting"}
    /\ CommandEntries(log) # {}

----------------------------------------------------------------------------
\* The latest step served a modified button press over a window and the
\* geometry query was answered.
PressServed ==
    /\ handled.kind = "ButtonPress" /\ handled.mod /\ handled.window # NoWindow
    /\ Len(log) = 3 /\ log[3].op = "GetGeometry" /\ log[3].value = 1

(* C11: a modified button press over a window W raises W, issues one        *)
(* pointer grab, and sets the drag session to Move on W for button 1, to    *)
(* Resize on W for button 3, with offset = press pointer position - W's     *)
(* queried origin; for any other button the drag session is empty           *)
(* afterwards, even if one was live before the press.                       *)
C11_DragStart ==
    PressServed =>
        /\ Ops(log) = <<"Raise", "GrabPointer", "GetGeometry">>
        /\ log[1].window = handled.window
        /\ pc = "running"
        /\ drag_state =
              IF handled.detail = 1
              THEN DragState("Left", handled.window,
                             handled.root_x - log[3].x, handled.root_y - log[3].y)
              ELSE IF handled.detail = 3
              THEN DragState("Right", handled.window,
                             handled.root_x - log[3].x, handled.root_y - log[3].y)
              ELSE NoDrag

----------------------------------------------------------------------------
\* The step serves the event at the head of the queue.
Serves(kind) ==
    /\ events # <<>> /\ events' = Tail(events)
    /\ Head(events).kind = kind

(* C12: every motion notification leaves the drag session (mode, target     *)
(* window, offset) exactly as it was, whether a configure command is        *)
(* issued, suppressed by the resize floor, or no session is live; the       *)
(* session changes only on a modified button press over a window and on a   *)
(* button release.                                                          *)
C12_SessionFrame ==
    [][/\ Serves("MotionNotify") => drag_state' = drag_state
       /\ drag_state' # drag_state =>
             \/ Serves("ButtonRelease")
             \/ /\ Serves("ButtonPress")
                /\ Head(events).mod /\ Head(events).window # NoWindow]_vars

\* A motion notice served in a Resize session whose command the floor
\* suppressed; the session is still live.
C12_Witness ==
    /\ handled.kind = "MotionNotify"
    /\ drag_state.button = "Right"
    /\ Ops(log) = <<"QueryPointer", "GetGeometry">> /\ log[2].value = 1

----------------------------------------------------------------------------
(* C13: handling a map request for any window W, tracked or not, issues     *)
(* exactly one map command, one configure command with position (0,0), size *)
(* 640x480 and border width 2, and one attribute-change command enabling    *)
(* enter/focus event delivery, all targeting W, followed by a flush; the    *)
(* placement depends neither on W nor on any manager state.                 *)
C13_MapRequest ==
    handled.kind = "MapRequest" =>
        /\ Len(log) = 4 /\ log[4].op = "Flush"
        /\ CommandsFor(log, handled.window) = {1, 2, 3}
        /\ \A op \in {"ConfigureGeometry", "SelectInput", "MapWindow"} :
              Cardinality(Entries(log, op)) = 1
        /\ \A i \in Entries(log, "ConfigureGeometry") :
              /\ log[i].x = 0 /\ log[i].y = 0
              /\ log[i].w = 640 /\ log[i].h = 480
              /\ log[i].value = 2
        /\ \A i \in Entries(log, "SelectInput") : log[i].value = 16 + 2097152

\* A map request served for a window that is not in the registry, while
\* another window is.
C13_Witness ==
    /\ handled.kind = "MapRequest"
    /\ handled.window \notin windows /\ windows # {}
    /\ Len(log) = 4

----------------------------------------------------------------------------
(* C14: every pointer-enter notification for a window W issues exactly one  *)
(* set-input-focus command for W with revert-to-pointer-root, whether or    *)
(* not W is in the registry and whether or not a drag session is live, and  *)
(* changes neither the registry nor the drag session.                       *)
C14_FocusFollowsPointer ==
    [][Serves("EnterNotify") =>
          /\ Cardinality(Entries(log', "SetInputFocus")) = 1
          /\ CommandEntries(log') = Entries(log', "SetInputFocus")
          /\ \A i \in Entries(log', "SetInputFocus") :
                log'[i].window = Head(events).window /\ log'[i].value = 1
          /\ windows' = windows
          /\ drag_state' = drag_state]_vars

\* A pointer-enter notice served for a window outside the registry while a
\* drag session is live.
C14_Witness ==
    /\ handled.kind = "EnterNotify"
    /\ handled.window \notin windows
    /\ drag_state # NoDrag
    /\ Entries(log, "SetInputFocus") # {}

----------------------------------------------------------------------------
\* The commands of the latest step that the server rejected: they name a
\* window that no longer existed when they were written.
Rejected ==
    {i \in CommandEntries(log) : log[i].window # NoWindow /\ ~win[log[i].window].exists}

(* C15: when the server rejects a checked command issued by a handler       *)
(* (configure, map, raise, set-focus, border-colour change, ungrab), the    *)
(* failure is propagated upward and the dispatch loop terminates with an    *)
(* error instead of continuing to the next event.                           *)
C15_CheckedFailureFatal ==
    (handled.kind \notin {"None", "AttachExisting"} /\ Rejected # {}) => pc = "error"

----------------------------------------------------------------------------
\* The children whose attribute query failed in the latest enumeration.
FailedChildren == {log[i].window : i \in {j \in AttrReplies : log[j].value = 0}}

(* C16: if the attribute query for one child fails during attach_existing,  *)
(* that child is neither registered nor mapped, every other child is still  *)
(* processed by the adoption criterion, and attach_existing completes       *)
(* successfully.                                                            *)
C16_EnumerationTolerates ==
    handled.kind = "AttachExisting" =>
        /\ FailedChildren \cap windows = {}
        /\ \A w \in FailedChildren : CommandsFor(log, w) = {}
        /\ {log[i].window : i \in AttrReplies} = {w \in Windows : win[w].exists} \cup FailedChildren
        /\ windows = Adopted
        /\ \A w \in Windows :
              Cardinality(CommandsFor(log, w)) = IF w \in Adopted THEN 3 ELSE 0
        /\ Last(log).op = "Flush"
        /\ pc = "ready"

\* An enumeration in which one child's attribute query failed and another
\* child was adopted.
C16_Witness ==
    /\ handled.kind = "AttachExisting"
    /\ FailedChildren # {}
    /\ Adopted # {}
    /\ pc = "ready"

----------------------------------------------------------------------------
\* The target of the live drag session has been destroyed and its
\* destruction notice has been served.
TargetGone ==
    /\ drag_state # NoDrag
    /\ ~win[drag_state.window].exists
    /\ drag_state.window \notin DestroyPending

(* C17: a destruction notice for the window that is the target of the live  *)
(* drag session removes it from the registry and leaves the drag session    *)
(* unchanged (same mode, target and offset); the session is then cleared    *)
(* only by the next button release.                                         *)
C17_DestroyKeepsSession ==
    [][/\ (Serves("DestroyNotify") /\ drag_state # NoDrag
           /\ Head(events).window = drag_state.window)
          => (drag_state' = drag_state /\ drag_state.window \notin windows')
       /\ (TargetGone /\ drag_state' # drag_state)
          => (Serves("ButtonRelease") /\ drag_state' = NoDrag)]_vars

\* The destruction notice of the drag target was served: the session is
\* live on a window that is gone from the server and from the registry.
C17_Witness ==
    /\ handled.kind = "DestroyNotify"
    /\ TargetGone
    /\ handled.window = drag_state.window
    /\ drag_state.window \notin windows

----------------------------------------------------------------------------
(* C18: a button press with no modifier over a window W issues exactly one  *)
(* stacking command raising W to the front and a flush; it issues no        *)
(* pointer grab and no geometry query, and leaves the drag session and the  *)
(* registry unchanged.                                                      *)
C18_PlainPressRaises ==
    [][(Serves("ButtonPress") /\ ~Head(events).mod /\ Head(events).window # NoWindow)
          => /\ Ops(log') = <<"Raise", "Flush">>
             /\ log'[1].window = Head(events).window
             /\ drag_state' = drag_state
             /\ windows' = windows
             /\ grab' = grab]_vars

\* An unmodified press over a window of the registry was served.
C18_Witness ==
    /\ handled.kind = "ButtonPress" /\ ~handled.mod
    /\ handled.window \in windows
    /\ Ops(log) = <<"Raise", "Flush">>

----------------------------------------------------------------------------
----------------------------------------------------------------------------
(* C20: a border-colour command is issued exactly when a focus-in notice    *)
(* (active colour, on the notified window) or a focus-out notice (inactive  *)
(* colour, on the notified window) is handled; handling a pointer-enter     *)
(* notice and issuing the set-input-focus command never issue one.          *)
C20_BorderFollowsFocus ==
    /\ handled.kind \in {"FocusIn", "FocusOut"} =>
          /\ Cardinality(Entries(log, "BorderPixel")) = 1
          /\ CommandEntries(log) = Entries(log, "BorderPixel")
          /\ \A i \in Entries(log, "BorderPixel") :
                /\ log[i].window = handled.window
                /\ log[i].value = IF handled.kind = "FocusIn" THEN 22015 ELSE 0
    /\ handled.kind \notin {"FocusIn", "FocusOut"} => Entries(log, "BorderPixel") = {}

\* A pointer-enter notice was served: set-input-focus issued, no border
\* colour command.
C20_Witness ==
    /\ handled.kind = "EnterNotify"
    /\ Entries(log, "SetInputFocus") # {}
    /\ Entries(log, "BorderPixel") = {}

----------------------------------------------------------------------------
\* The configure commands of a log that carry a position, and those that
\* carry a size.
PositionEntries(l) == Entries(l, "ConfigureXY") \cup Entries(l, "ConfigureGeometry")

SizeEntries(l) == Entries(l, "ConfigureWH") \cup Entries(l, "ConfigureGeometry")

(* C21: in a Resize session the candidate size is (ptr_x - win_x + 1 - 2B,  *)
(* ptr_y - win_y + 1 - 2B), computed from the live pointer and the live     *)
(* window origin, and the configure command issued carries only width and   *)
(* height, so a resize never changes the window's position; symmetrically   *)
(* a Move configure carries only x and y and never changes the window's     *)
(* size.                                                                    *)
C21_ResizeAnchored ==
    [][(/\ Serves("MotionNotify")
        /\ drag_state # NoDrag
        /\ Len(log') >= 2 /\ log'[2].value = 1)
       => LET t == drag_state.window
          IN /\ log'[1].x = pointer[1] /\ log'[1].y = pointer[2]
             /\ log'[2].x = win[t].x /\ log'[2].y = win[t].y
             /\ IF drag_state.button = "Right"
                THEN /\ PositionEntries(log') = {}
                     /\ \A i \in SizeEntries(log') :
                           /\ log'[i].window = t
                           /\ log'[i].w = pointer[1] - win[t].x + 1 - 2 * 2
                           /\ log'[i].h = pointer[2] - win[t].y + 1 - 2 * 2
                           /\ win'[t].w = log'[i].w /\ win'[t].h = log'[i].h
                     /\ win'[t].x = win[t].x /\ win'[t].y = win[t].y
                ELSE /\ SizeEntries(log') = {}
                     /\ Cardinality(PositionEntries(log')) = 1
                     /\ \A i \in PositionEntries(log') : log'[i].window = t
                     /\ win'[t].w = win[t].w /\ win'[t].h = win[t].h]_vars

\* A resize command was issued for a window whose origin is not (0,0): the
\* window has the new size and the origin it had.
C21_Witness ==
    /\ MotionServed("Right")
    /\ Ops(log) = <<"QueryPointer", "GetGeometry", "ConfigureWH", "Flush">>
    /\ log[2].x > 0 /\ log[2].y > 0
    /\ win[drag_state.window].x = log[2].x /\ win[drag_state.window].y = log[2].y
    /\ win[drag_state.window].w = log[3].w /\ log[3].w # log[2].w

----------------------------------------------------------------------------
(* C22: in every reachable state of the dispatch loop, if a drag session is *)
(* live then the manager has requested a pointer grab since the last        *)
(* pointer ungrab it issued, after any sequence of press, release, motion,  *)
(* create and destroy events.  (Every GrabPointer and UngrabPointer is      *)
(* written out within the step that issues it, so grab records which of the *)
(* two the manager issued last.)                                            *)
C22_SessionImpliesGrab ==
    /\ \A i \in 1..Len(outbuf) : outbuf[i].op \notin {"GrabPointer", "UngrabPointer"}
    /\ drag_state # NoDrag => grab

\* A session that outlived the destruction of another window: still live,
\* the grab still requested.
C22_Witness ==
    /\ handled.kind = "DestroyNotify"
    /\ drag_state # NoDrag /\ handled.window # drag_state.window
    /\ grab

----------------------------------------------------------------------------
(* C23: if the drag target has been destroyed on the server and a motion    *)
(* notification is then handled while the session is still live, the        *)
(* geometry query for the target fails, the dispatch loop terminates with   *)
(* that error, and no configure command naming the destroyed window is      *)
(* issued.                                                                  *)
C23_MotionOnDestroyedTarget ==
    [][(/\ Serves("MotionNotify")
        /\ drag_state # NoDrag
        /\ ~win[drag_state.window].exists)
       => /\ Ops(log') = <<"QueryPointer", "GetGeometry">>
          /\ log'[2].window = drag_state.window /\ log'[2].value = 0
          /\ CommandsFor(log', drag_state.window) = {}
          /\ outbuf' = <<>>
          /\ pc' = "error"]_vars

\* A motion notice was served in a session whose target is gone: the
\* geometry query failed and run returned the error.
C23_Witness ==
    /\ handled.kind = "MotionNotify"
    /\ TargetGone
    /\ Ops(log) = <<"QueryPointer", "GetGeometry">> /\ log[2].value = 0
    /\ pc = "error"

----------------------------------------------------------------------------
\* The bordered extent of window w lies fully on the screen.
FullyOnScreen(w) ==
    /\ win[w].exists
    /\ 0 <= win[w].x /\ win[w].x + win[w].w + 2 * 2 <= screen[1]
    /\ 0 <= win[w].y /\ win[w].y + win[w].h + 2 * 2 <= screen[2]

(* C24: if a Move session is started by a press at pointer position P over  *)
(* a window whose bordered extent lies fully on-screen with origin (x0,y0), *)
(* and the first motion notification is handled with the pointer still at   *)
(* P and the window geometry unchanged, the configure command issued        *)
(* targets exactly (x0,y0).  Stated on the two steps: the press stores      *)
(* P - (x0,y0) as the offset of the session, and a motion notice served in  *)
(* a Move session whose pointer less the stored offset is the window's      *)
(* origin (the pointer still at P, the window still at (x0,y0)) issues one  *)
(* configure command targeting that origin and leaves the window where it   *)
(* is.                                                                      *)
C24_NoJumpAtStart ==
    [][/\ (/\ Serves("ButtonPress")
           /\ Head(events).mod /\ Head(events).detail = 1
           /\ Head(events).window # NoWindow
           /\ FullyOnScreen(Head(events).window))
          => LET ev == Head(events)
             IN drag_state' = DragState("Left", ev.window,
                                        ev.root_x - win[ev.window].x,
                                        ev.root_y - win[ev.window].y)
       /\ (/\ Serves("MotionNotify")
           /\ drag_state.button = "Left"
           /\ FullyOnScreen(drag_state.window)
           /\ pointer[1] - drag_state.off_x = win[drag_state.window].x
           /\ pointer[2] - drag_state.off_y = win[drag_state.window].y)
          => /\ IsMoveLog(log')
             /\ log'[3].window = drag_state.window
             /\ log'[3].x = win[drag_state.window].x
             /\ log'[3].y = win[drag_state.window].y
             /\ win' = win]_vars

\* A motion notice served in a Move session with the pointer where the
\* press was, over a window away from the screen's origin: the command
\* targets the origin the window has.
C24_Witness ==
    /\ handled.kind = "MotionNotify"
    /\ IsMoveLog(log)
    /\ log[2].x > 0 /\ log[2].y > 0
    /\ log[1].x - drag_state.off_x = log[2].x /\ log[1].y - drag_state.off_y = log[2].y
    /\ log[3].x = log[2].x /\ log[3].y = log[2].y
    /\ drag_state.off_x > 0

====
